---- MODULE Spec2Model ----
(***************************************************************************)
(* A model of wordninja_enhanced.LanguageModel: construction of the word   *)
(* cost table, split (dynamic programme with backtracking and the          *)
(* apostrophe / digit merge), candidates (beam search) and rejoin (spacing *)
(* pass with the double-quote flag).                                       *)
(*                                                                         *)
(* Strings are sequences of one-character strings; a token list is a       *)
(* sequence of such sequences.  Costs are the code's floats, kept exactly: *)
(* log((i+1)*log(N)) is read from a table of doubles and sums are rounded  *)
(* as double addition rounds them, so that two costs equal as real numbers *)
(* compare as they do in the code.                                         *)
(***************************************************************************)
EXTENDS Integers, Sequences, FiniteSets, TLC

VARIABLES
    args,      \* the constructor's arguments
    text,      \* the string the calls are made on
    top_n,     \* the top_n argument of candidates
    lm,        \* the LanguageModel, once constructed (or the error raised)
    split_out, \* what split(text) returned, and the pieces its backtracking chose
    cand_out,  \* what candidates(text, top_n) returned, and the final beam
    rejoin_out \* what rejoin(text) returned, and the trace of its loop

vars == <<args, text, top_n, lm, split_out, cand_out, rejoin_out>>

----------------------------------------------------------------------------
(* Characters: str.lower, str.isdigit, str.isspace and the regex class \s. *)
(* Texts are ASCII: the classes below are the ASCII members of Python's.   *)

\* the characters str.lower changes
UpperCase ==
    {"A", "B", "C", "D", "E", "F", "G", "H", "I", "J", "K", "L", "M",
     "N", "O", "P", "Q", "R", "S", "T", "U", "V", "W", "X", "Y", "Z"}

\* the characters for which str.isdigit holds
Digits == {"0", "1", "2", "3", "4", "5", "6", "7", "8", "9"}

\* the characters \s matches and for which str.isspace holds: space, tab,
\* line feed, carriage return, form feed, and the control characters VT
\* (0x0b), FS (0x1c), GS (0x1d), RS (0x1e) and US (0x1f), which are written
\* here as themselves
WhiteSpace == {" ", "\t", "\n", "\r", "\f", "", "", "", "", ""}

\* what str.lower makes of each character it changes
LowerOf ==
    "A" :> "a" @@ "B" :> "b" @@ "C" :> "c" @@ "D" :> "d" @@ "E" :> "e" @@ "F" :> "f"
    @@ "G" :> "g" @@ "H" :> "h" @@ "I" :> "i" @@ "J" :> "j" @@ "K" :> "k" @@ "L" :> "l"
    @@ "M" :> "m" @@ "N" :> "n" @@ "O" :> "o" @@ "P" :> "p" @@ "Q" :> "q" @@ "R" :> "r"
    @@ "S" :> "s" @@ "T" :> "t" @@ "U" :> "u" @@ "V" :> "v" @@ "W" :> "w" @@ "X" :> "x"
    @@ "Y" :> "y" @@ "Z" :> "z"

\* str.lower() on one character
LowerChar(c) == IF c \in UpperCase THEN LowerOf[c] ELSE c

\* str.lower() on a string
Lower(w) == [n \in 1..Len(w) |-> LowerChar(w[n])]

IsDigit(c) == c \in Digits
IsSpace(c) == c \in WhiteSpace

\* str.isspace(): non-empty and every character is whitespace
StrIsSpace(w) == Len(w) > 0 /\ \A n \in 1..Len(w) : IsSpace(w[n])

\* Python's s[a:b] for 0 <= a <= b <= len(s)
Slice(s, a, b) == SubSeq(s, a + 1, b)

RECURSIVE Flatten(_)
\* "".join(parts) / [item for sublist in lists for item in sublist]
Flatten(ss) == IF ss = <<>> THEN <<>> ELSE Head(ss) \o Flatten(Tail(ss))

Reverse(q) == [n \in 1..Len(q) |-> q[Len(q) + 1 - n]]

Max(a, b) == IF a >= b THEN a ELSE b
Min(a, b) == IF a <= b THEN a ELSE b

----------------------------------------------------------------------------
(* LanguageModel.__init__ *)

\* The spacing rule sets, as sets of one-character tokens.  The members
\* outside ASCII (the curly apostrophe, guillemets, inverted marks, the euro
\* and pound signs) are written by name; no text of the model holds them.
NO_SPACE_BEFORE_BASE ==
    {".", ",", ";", ":", "!", "?", ")", "]", "}", "%", "'", "rsquo", "s",
     "raquo", "rsaquo", "-"}
NO_SPACE_AFTER_BASE ==
    {"(", "[", "{", "laquo", "lsaquo", "iexcl", "iquest", "-", "$", "euro", "pound"}

LANGUAGE_FILES == {"en", "de", "fr", "es", "it", "pt"}

\* A float is kept exactly.  <<sign, hi, mid, lo>> stands for the number
\*     sign * (hi * 2^48 + mid * 2^24 + lo) * 2^-60
\* with sign 1 or -1 and mid, lo below 2^24.  Every float the code meets on
\* the inputs here is such a number: the costs of RankCostTable, the penalty
\* 25, and their sums (of magnitude below 4096).  Zero has sign 1.
Limb == 16777216

Zero == <<1, 0, 0, 0>>

\* float('inf') and 9e999 (which is inf as a float)
Infinity == <<1, 1073741824, 0, 0>>
NegInfinity == <<-1, 1073741824, 0, 0>>

\* the penalty of an unknown single character, 25
UnknownCharCost == <<1, 102400, 0, 0>>

\* |x| < |y|
MagLess(x, y) ==
    \/ x[2] < y[2]
    \/ x[2] = y[2] /\ x[3] < y[3]
    \/ x[2] = y[2] /\ x[3] = y[3] /\ x[4] < y[4]

\* x < y on floats
Less(x, y) ==
    IF x[1] # y[1] THEN x[1] < y[1]
    ELSE IF x[1] = 1 THEN MagLess(x, y)
    ELSE MagLess(y, x)

\* x <= y on floats
LessEq(x, y) == ~Less(y, x)

RECURSIVE BitLengthLoop(_)
\* the number of binary digits of n >= 0
BitLengthLoop(n) == IF n = 0 THEN 0 ELSE 1 + BitLengthLoop(n \div 2)

\* the number of binary digits of n, for 0 <= n < 2^20, read from a table of
\* the numbers below 2^10
BitLengthBelow1024 == [n \in 0..1023 |-> BitLengthLoop(n)]
BitLength(n) ==
    IF n < 1024 THEN BitLengthBelow1024[n]
    ELSE 10 + BitLengthBelow1024[n \div 1024]

\* <<sign, a, b, c>> with b brought into 0..2^24-1 by a carry into a, or a
\* borrow from it
NormalMid(sign, a, b, c) ==
    IF b < 0 THEN <<sign, a - 1, b + Limb, c>>
    ELSE IF b >= Limb THEN <<sign, a + 1, b - Limb, c>>
    ELSE <<sign, a, b, c>>

\* <<sign, a, b, c>> with c, then b, brought into 0..2^24-1
Normal(sign, a, b, c) ==
    IF c < 0 THEN NormalMid(sign, a, b - 1, c + Limb)
    ELSE IF c >= Limb THEN NormalMid(sign, a, b + 1, c - Limb)
    ELSE NormalMid(sign, a, b, c)

\* x with the digits below unit cut off, rem being their value: to the
\* nearer multiple of unit, a tie going to the even one
RoundOff(x, unit, rem) ==
    IF 2 * rem > unit \/ (2 * rem = unit /\ (x[4] \div unit) % 2 = 1)
    THEN Normal(x[1], x[2], x[3], x[4] - rem + unit)
    ELSE <<x[1], x[2], x[3], x[4] - rem>>

\* The float nearest to the number x: its magnitude is cut to 53 binary
\* digits, the digits of hi above the lowest five being as many as are cut
\* from lo (the rounding of IEEE 754 double addition)
RoundToDouble(x) ==
    IF x[2] < 32 THEN x
    ELSE RoundOff(x, 2 ^ BitLength(x[2] \div 32), x[4] % (2 ^ BitLength(x[2] \div 32)))

\* x + y for finite floats whose sum is not zero and has the given sign:
\* the limbs are added with their signs, then rounded
SumWithSign(x, y, sign) ==
    RoundToDouble(Normal(sign,
                         sign * (x[1] * x[2] + y[1] * y[2]),
                         sign * (x[1] * x[3] + y[1] * y[3]),
                         sign * (x[1] * x[4] + y[1] * y[4])))

\* x + y on floats, either of which may be inf
Plus(x, y) ==
    IF x = Infinity \/ y = Infinity THEN Infinity
    ELSE IF x = NegInfinity \/ y = NegInfinity THEN NegInfinity
    ELSE IF x[1] # y[1] /\ x[2] = y[2] /\ x[3] = y[3] /\ x[4] = y[4] THEN Zero
    ELSE SumWithSign(x, y, IF x[1] = y[1] \/ MagLess(y, x) THEN x[1] ELSE y[1])

\* math.log((i + 1) * math.log(N)) for N = 2..16 and i = 0..N-1, as floats:
\* RankCostTable[N - 1][i + 1]
RankCostTable ==
    << <<<<-1, 1501, 3974903, 5957568>>,
       <<1, 1337, 14997637, 12718016>>>>,
     <<<<1, 385, 3689341, 16392880>>,
       <<1, 3224, 5884667, 1514112>>,
       <<1, 4885, 2278954, 16592128>>>>,
     <<<<1, 1337, 14997637, 12718016>>,
       <<1, 4177, 415746, 14616320>>,
       <<1, 5837, 13587250, 12917248>>,
       <<1, 7016, 2611071, 16514816>>>>,
     <<<<1, 1949, 3773881, 6590784>>,
       <<1, 4788, 5969206, 8489216>>,
       <<1, 6449, 2363494, 6790144>>,
       <<1, 7627, 8164531, 10387712>>,
       <<1, 8541, 8097190, 15844352>>>>,
     <<<<1, 2388, 13075136, 13821056>>,
       <<1, 5227, 15270461, 15719424>>,
       <<1, 6888, 11664749, 14020608>>,
       <<1, 8067, 688571, 840704>>,
       <<1, 8981, 621230, 6297600>>,
       <<1, 9727, 13860074, 15919104>>>>,
     <<<<1, 2726, 13913414, 8313984>>,
       <<1, 5565, 16108739, 10212352>>,
       <<1, 7226, 12503027, 8513280>>,
       <<1, 8405, 1526848, 12110848>>,
       <<1, 9319, 1459508, 790528>>,
       <<1, 10065, 14698352, 10411520>>,
       <<1, 10697, 4651896, 14234624>>>>,
     <<<<1, 2998, 11391925, 11018880>>,
       <<1, 5837, 13587250, 12917248>>,
       <<1, 7498, 9981538, 11218176>>,
       <<1, 8676, 15782575, 14815744>>,
       <<1, 9590, 15715235, 3495424>>,
       <<1, 10337, 12176863, 13116416>>,
       <<1, 10969, 2130408, 162304>>,
       <<1, 11516, 1200684, 16714240>>>>,
     <<<<1, 3224, 5884667, 1514112>>,
       <<1, 6063, 8079992, 3412480>>,
       <<1, 7724, 4474280, 1713408>>,
       <<1, 8902, 10275317, 5310976>>,
       <<1, 9816, 10207976, 10767872>>,
       <<1, 10563, 6669605, 3611648>>,
       <<1, 11194, 13400365, 7434752>>,
       <<1, 11741, 12470642, 7209472>>,
       <<1, 12224, 3063893, 1912832>>>>,
     <<<<1, 3416, 3303362, 4800000>>,
       <<1, 6255, 5498687, 6698240>>,
       <<1, 7916, 1892975, 4999168>>,
       <<1, 9094, 7694012, 8596480>>,
       <<1, 10008, 7626671, 14053888>>,
       <<1, 10755, 4088300, 6897664>>,
       <<1, 11386, 10819060, 10720256>>,
       <<1, 11933, 9889337, 10494976>>,
       <<1, 12416, 482588, 5198848>>,
       <<1, 12847, 9821996, 15952384>>>>,
     <<<<1, 3582, 5474480, 5545088>>,
       <<1, 6421, 7669805, 7443456>>,
       <<1, 8082, 4064093, 5744384>>,
       <<1, 9260, 9865130, 9341952>>,
       <<1, 10174, 9797789, 14798848>>,
       <<1, 10921, 6259418, 7642624>>,
       <<1, 11552, 12990178, 11465728>>,
       <<1, 12099, 12060455, 11240448>>,
       <<1, 12582, 2653706, 5943808>>,
       <<1, 13013, 11993114, 16697344>>,
       <<1, 13404, 1767342, 12792832>>>>,
     <<<<1, 3728, 5418074, 13577856>>,
       <<1, 6567, 7613399, 15476224>>,
       <<1, 8228, 4007687, 13777408>>,
       <<1, 9406, 9808725, 597504>>,
       <<1, 10320, 9741384, 6054400>>,
       <<1, 11067, 6203012, 15675904>>,
       <<1, 11698, 12933773, 2721280>>,
       <<1, 12245, 12004050, 2496000>>,
       <<1, 12728, 2597300, 13976576>>,
       <<1, 13159, 11936709, 7952896>>,
       <<1, 13550, 1710937, 4048384>>,
       <<1, 13906, 8398338, 796672>>>>,
     <<<<1, 3858, 3037641, 4363648>>,
       <<1, 6697, 5232966, 6262016>>,
       <<1, 8358, 1627254, 4562944>>,
       <<1, 9536, 7428291, 8160256>>,
       <<1, 10450, 7360950, 13617152>>,
       <<1, 11197, 3822579, 6461440>>,
       <<1, 11828, 10553339, 10284032>>,
       <<1, 12375, 9623616, 10058752>>,
       <<1, 12858, 216867, 4762112>>,
       <<1, 13289, 9556275, 15515648>>,
       <<1, 13679, 16107719, 11611136>>,
       <<1, 14036, 6017904, 8359936>>,
       <<1, 14364, 3584044, 5978112>>>>,
     <<<<1, 3974, 14220638, 10025344>>,
       <<1, 6813, 16415963, 11923712>>,
       <<1, 8474, 12810251, 10224640>>,
       <<1, 9653, 1834072, 13821952>>,
       <<1, 10567, 1766732, 2501632>>,
       <<1, 11313, 15005576, 12123136>>,
       <<1, 11945, 4959120, 15945728>>,
       <<1, 12492, 4029397, 15720448>>,
       <<1, 12974, 11399864, 10423808>>,
       <<1, 13406, 3962057, 4400128>>,
       <<1, 13796, 10513501, 496128>>,
       <<1, 14153, 423685, 14021120>>,
       <<1, 14480, 14767041, 11639808>>,
       <<1, 14784, 7154446, 1067008>>>>,
     <<<<1, 4080, 9286952, 15173504>>,
       <<1, 6919, 11482278, 294656>>,
       <<1, 8580, 7876565, 15372800>>,
       <<1, 9758, 13677603, 2192896>>,
       <<1, 10672, 13610262, 7650304>>,
       <<1, 11419, 10071891, 494080>>,
       <<1, 12051, 25435, 4316672>>,
       <<1, 12597, 15872928, 4091392>>,
       <<1, 13080, 6466178, 15571968>>,
       <<1, 13511, 15805587, 9548288>>,
       <<1, 13902, 5579815, 5644288>>,
       <<1, 14258, 12267216, 2392576>>,
       <<1, 14586, 9833356, 10752>>,
       <<1, 14890, 2220760, 6215168>>,
       <<1, 15172, 12199875, 7849472>>>>,
     <<<<1, 4177, 415746, 14616320>>,
       <<1, 7016, 2611071, 16514816>>,
       <<1, 8676, 15782575, 14815744>>,
       <<1, 9855, 4806397, 1635840>>,
       <<1, 10769, 4739056, 7092736>>,
       <<1, 11516, 1200684, 16714240>>,
       <<1, 12147, 7931445, 3759616>>,
       <<1, 12694, 7001722, 3534336>>,
       <<1, 13176, 14372188, 15014912>>,
       <<1, 13608, 6934381, 8991232>>,
       <<1, 13998, 13485825, 5087232>>,
       <<1, 14355, 3396010, 1835008>>,
       <<1, 14683, 962149, 16230912>>,
       <<1, 14986, 10126770, 5658112>>,
       <<1, 15269, 3328669, 7292416>>,
       <<1, 15533, 9197047, 5432832>>>> >>

\* log((i + 1) * log(N)), i the 0-based rank and N = len(words); math.log
\* raises ValueError unless its argument is positive, and (i + 1) * log(N)
\* is positive exactly when N > 1
LogArgPositive(i, N) == N > 1
RankCost(i, N) == RankCostTable[N - 1][i + 1]

Range(q) == {q[n] : n \in 1..Len(q)}

RECURSIVE MaxLenOf(_)
\* max(len(x) for x in words), words not empty
MaxLenOf(ws) ==
    IF Len(ws) = 1 THEN Len(ws[1]) ELSE Max(Len(ws[1]), MaxLenOf(Tail(ws)))

\* the blacklist step
RemoveBlacklisted(words, blacklist) ==
    IF blacklist = <<>> THEN words
    ELSE SelectSeq(words, LAMBDA w : w \notin Range(blacklist))

\* AddWords that appends the added words whatever add_to_top says
AddWordsAtBottom(words, add_words, add_to_top, overwrite) ==
    IF add_words = <<>> THEN words
    ELSE
        LET lowered == [n \in 1..Len(add_words) |-> Lower(add_words[n])]
            kept == IF overwrite
                    THEN SelectSeq(words, LAMBDA w : w \notin Range(lowered))
                    ELSE words
            added == IF overwrite
                     THEN lowered
                     ELSE SelectSeq(lowered, LAMBDA w : w \notin Range(words))
        IN  kept \o added

\* the add_words step
AddWords(words, add_words, add_to_top, overwrite) ==
    IF add_words = <<>> THEN words
    ELSE
        LET lowered == [n \in 1..Len(add_words) |-> Lower(add_words[n])]
            kept == IF overwrite
                    THEN SelectSeq(words, LAMBDA w : w \notin Range(lowered))
                    ELSE words
            added == IF overwrite
                     THEN lowered
                     ELSE SelectSeq(lowered, LAMBDA w : w \notin Range(words))
        IN  IF add_to_top THEN added \o kept ELSE kept \o added

\* dict((k, log((i + 1) * log(len(words)))) for i, k in enumerate(words)):
\* a word listed twice keeps the cost of its last rank
WordCostTable(words) ==
    [w \in Range(words) |->
        LET last == CHOOSE n \in 1..Len(words) :
                        /\ words[n] = w
                        /\ \A m \in (n + 1)..Len(words) : words[m] # w
        IN  RankCost(last - 1, Len(words))]

NoSpaceBefore(language) ==
    CASE language = "de" -> NO_SPACE_BEFORE_BASE \ {"%", "-"}
      [] language = "fr" -> NO_SPACE_BEFORE_BASE \ {":", ";", "!", "?", "raquo", "%"}
      [] language = "es" -> NO_SPACE_BEFORE_BASE \ {"%"}
      [] OTHER -> NO_SPACE_BEFORE_BASE

NoSpaceAfter(language) ==
    CASE language = "de" -> NO_SPACE_AFTER_BASE \ {"-", "$", "euro", "pound"}
      [] language = "fr" -> NO_SPACE_AFTER_BASE \ {"laquo"}
      [] OTHER -> NO_SPACE_AFTER_BASE

Raised(what) == [status |-> "error", error |-> what]

\* the constructor with a logarithm that gives -inf at 0 instead of raising
NewLanguageModelLogNeverRaises(a) ==
    IF a.language = "custom" /\ a.word_file \in {"", "missing"}
    THEN Raised("ValueError: word_file")
    ELSE IF a.language # "custom" /\ a.language \notin LANGUAGE_FILES
    THEN Raised("ValueError: language")
    ELSE
        LET words == AddWords(RemoveBlacklisted(a.file_words, a.blacklist),
                              a.add_words, a.add_to_top, a.overwrite)
            N == Len(words)
        IN  IF N = 0
            THEN Raised("ValueError: max() arg is an empty sequence")
            ELSE [status |-> "ok",
                  words |-> words,
                  wordcost |-> IF LogArgPositive(0, N) THEN WordCostTable(words)
                               ELSE [w \in Range(words) |-> NegInfinity],
                  maxword |-> MaxLenOf(words),
                  no_space_before |-> NoSpaceBefore(a.language),
                  no_space_after |-> NoSpaceAfter(a.language)]

\* The constructor: the model, or the exception it raises.  a.file_words is
\* what the word file holds; a.word_file is "" when no path is given and
\* "missing" when the path does not exist.
NewLanguageModel(a) ==
    IF a.language = "custom" /\ a.word_file \in {"", "missing"}
    THEN Raised("ValueError: word_file")
    ELSE IF a.language # "custom" /\ a.language \notin LANGUAGE_FILES
    THEN Raised("ValueError: language")
    ELSE
        LET words == AddWords(RemoveBlacklisted(a.file_words, a.blacklist),
                              a.add_words, a.add_to_top, a.overwrite)
            N == Len(words)
        IN  IF \E i \in 0..(N - 1) : ~LogArgPositive(i, N)
            THEN Raised("ValueError: math domain error")
            ELSE IF N = 0
            THEN Raised("ValueError: max() arg is an empty sequence")
            ELSE [status |-> "ok",
                  words |-> words,
                  wordcost |-> WordCostTable(words),
                  maxword |-> MaxLenOf(words),
                  no_space_before |-> NoSpaceBefore(a.language),
                  no_space_after |-> NoSpaceAfter(a.language)]

----------------------------------------------------------------------------
(* The regular expression \s+ : re.findall, re.split *)

RECURSIVE RunEnd(_, _, _)
\* the end (exclusive, 0-based) of the maximal run starting at position a
\* whose characters all have whitespace-ness ws
RunEnd(s, a, ws) ==
    IF a < Len(s) /\ IsSpace(s[a + 1]) = ws THEN RunEnd(s, a + 1, ws) ELSE a

RECURSIVE Chunks(_, _)
\* s[a:] cut into maximal runs of whitespace and of non-whitespace
Chunks(s, a) ==
    IF a >= Len(s) THEN <<>>
    ELSE LET b == RunEnd(s, a, IsSpace(s[a + 1]))
         IN  <<Slice(s, a, b)>> \o Chunks(s, b)

\* _SPLIT_RE.findall(s): the maximal whitespace runs
SplitRE_findall(s) == SelectSeq(Chunks(s, 0), StrIsSpace)

\* _SPLIT_RE.split(s): the texts between the whitespace runs, an empty text
\* before a leading run and after a trailing one
SplitRE_split(s) ==
    LET cs == Chunks(s, 0)
        texts == SelectSeq(cs, LAMBDA c : ~StrIsSpace(c))
    IN  IF cs = <<>> THEN <<s>>
        ELSE (IF StrIsSpace(cs[1]) THEN <<<<>>>> ELSE <<>>)
             \o texts
             \o (IF StrIsSpace(cs[Len(cs)]) THEN <<<<>>>> ELSE <<>>)

\* [c for c in _SPLIT_RE_FOR_CANDIDATES.split(s) if c]
CandidateChunks(s) == Chunks(s, 0)

----------------------------------------------------------------------------
(* LanguageModel._split *)

\* self._wordcost.get(word), with the penalties of an unknown word
WordCost(model, word) ==
    IF word \in DOMAIN model.wordcost THEN model.wordcost[word]
    ELSE IF Len(word) = 1 THEN UnknownCharCost
    ELSE Infinity

RECURSIVE BestMatchLoop(_, _, _, _, _, _)
\* the loop of best_match(i) from candidate k on; cost[j + 1] is cost[j] of
\* the code, best = <<min_cost, best_k>>
BestMatchLoop(model, s, cost, i, k, best) ==
    IF k >= Min(i, model.maxword) THEN best
    ELSE
        LET word == Lower(Slice(s, i - k - 1, i))
            current_total_cost == Plus(cost[i - k], WordCost(model, word))
        IN  BestMatchLoop(model, s, cost, i, k + 1,
                IF Less(current_total_cost, best[1])
                THEN <<current_total_cost, k + 1>>
                ELSE best)

\* best_match whose window is one candidate short: cost[i - maxword + 1:i]
best_matchShortWindow(model, s, cost, i) ==
    BestMatchLoop([model EXCEPT !.maxword = model.maxword - 1], s, cost, i, 0,
                  <<Infinity, 0>>)

\* best_match(i) = (min_cost, best_k)
best_match(model, s, cost, i) ==
    BestMatchLoop(model, s, cost, i, 0, <<Infinity, 0>>)

RECURSIVE BuildCost(_, _, _)
\* the cost array: cost = [0] (Zero here), then cost.append(best_match(i)[0]) for i = 1..len(s)
BuildCost(model, s, cost) ==
    IF Len(cost) > Len(s) THEN cost
    ELSE BuildCost(model, s, Append(cost, best_match(model, s, cost, Len(cost))[1]))

\* MergeStep with the merged piece put after the token instead of before it
MergeStepSuffixes(s, i, k, out) ==
    LET piece == Slice(s, i - k, i)
        last == out[Len(out)]
    IN  IF /\ piece # <<"'">>
           /\ Len(out) > 0
           /\ \/ last = <<"'", "s">>
              \/ IsDigit(s[i]) /\ IsDigit(last[1])
        THEN [out EXCEPT ![Len(out)] = last \o piece]
        ELSE Append(out, piece)

\* MergeStep that looks at the first character of the piece, not the last
MergeStepFirstChar(s, i, k, out) ==
    LET piece == Slice(s, i - k, i)
        last == out[Len(out)]
    IN  IF /\ piece # <<"'">>
           /\ Len(out) > 0
           /\ \/ last = <<"'", "s">>
              \/ IsDigit(piece[1]) /\ IsDigit(last[1])
        THEN [out EXCEPT ![Len(out)] = piece \o last]
        ELSE Append(out, piece)

\* MergeStep without the exemption of a lone apostrophe
MergeStepNoExemption(s, i, k, out) ==
    LET piece == Slice(s, i - k, i)
        last == out[Len(out)]
    IN  IF /\ Len(out) > 0
           /\ \/ last = <<"'", "s">>
              \/ IsDigit(s[i]) /\ IsDigit(last[1])
        THEN [out EXCEPT ![Len(out)] = piece \o last]
        ELSE Append(out, piece)

\* one round of the backtracking loop on the piece s[i-k:i]: the new out
MergeStep(s, i, k, out) ==
    LET piece == Slice(s, i - k, i)
        last == out[Len(out)]
    IN  IF /\ piece # <<"'">>
           /\ Len(out) > 0
           /\ \/ last = <<"'", "s">>
              \/ IsDigit(s[i]) /\ IsDigit(last[1])
        THEN [out EXCEPT ![Len(out)] = piece \o last]
        ELSE Append(out, piece)

RECURSIVE Backtrack(_, _, _, _, _)
\* the while loop of _split from position i; st.out is out, st.pieces the
\* pieces s[i-k:i] in the order the loop meets them (right to left)
\* With k = 0 the position stays at i: the loop appends the empty piece for
\* ever, or raises IndexError at out[-1][0] when s[i-1] is a digit.  Either
\* way _split does not return, which st.stuck records.
Backtrack(model, s, cost, i, st) ==
    IF i <= 0 THEN st
    ELSE
        LET k == best_match(model, s, cost, i)[2]
        IN  IF k = 0 THEN [st EXCEPT !.stuck = TRUE]
            ELSE Backtrack(model, s, cost, i - k,
                    [st EXCEPT !.out = MergeStep(s, i, k, st.out),
                               !.pieces = Append(st.pieces, Slice(s, i - k, i))])

\* _split(s): reversed(out), with the pieces in text order
SplitChunk(model, s) ==
    LET cost == BuildCost(model, s, <<Zero>>)
        st == Backtrack(model, s, cost, Len(s),
                        [out |-> <<>>, pieces |-> <<>>, stuck |-> FALSE])
    IN  [tokens |-> Reverse(st.out), pieces |-> Reverse(st.pieces),
         stuck |-> st.stuck]

\* list.insert(pos, x)
InsertAt(q, pos, x) == SubSeq(q, 1, pos) \o <<x>> \o SubSeq(q, pos + 1, Len(q))

RECURSIVE InsertDelimiters(_, _, _)
\* for i, delimiter in reversed(list(enumerate(delimiters))):
\*     new_texts.insert(i + 1, [delimiter])
\* from the delimiter of index n - 1 down to the first
InsertDelimiters(new_texts, delimiters, n) ==
    IF n = 0 THEN new_texts
    ELSE InsertDelimiters(InsertAt(new_texts, n, <<delimiters[n]>>), delimiters, n - 1)

RECURSIVE SplitChunks(_, _)
\* [self._split(x) for x in texts]
SplitChunks(model, texts) ==
    IF texts = <<>> THEN <<>>
    ELSE <<SplitChunk(model, Head(texts))>> \o SplitChunks(model, Tail(texts))

\* split(s): tokens is what it returns, pieces the pieces chosen for each
\* text between whitespace runs
Split(model, s) ==
    LET delimiters == SplitRE_findall(s)
        texts == SplitRE_split(s)
        parts == SplitChunks(model, texts)
        new_texts == [n \in 1..Len(texts) |-> parts[n].tokens]
    IN  [tokens |-> Flatten(InsertDelimiters(new_texts, delimiters, Len(delimiters))),
         pieces |-> [n \in 1..Len(texts) |-> parts[n].pieces],
         stuck |-> \E n \in 1..Len(texts) : parts[n].stuck]

----------------------------------------------------------------------------
(* LanguageModel.candidates *)

\* the least beam width, max(top_n, 10)
MinBeamWidth == 10

\* str.endswith("'")
EndsWithApostrophe(w) == Len(w) > 0 /\ w[Len(w)] = "'"

\* should_merge of _post_process_candidate
ShouldMerge(token, prev_token) ==
    \/ token = <<"'", "s">> /\ ~EndsWithApostrophe(prev_token)
    \/ /\ Len(token) > 0
       /\ Len(prev_token) > 0
       /\ IsDigit(token[1])
       /\ IsDigit(prev_token[Len(prev_token)])

RECURSIVE PostProcessLoop(_, _, _)
\* the loop of _post_process_candidate from index i (1-based) on
PostProcessLoop(split, i, processed_split) ==
    IF i > Len(split) THEN processed_split
    ELSE
        LET token == split[i]
            prev_token == processed_split[Len(processed_split)]
        IN  PostProcessLoop(split, i + 1,
                IF ShouldMerge(token, prev_token)
                THEN [processed_split EXCEPT ![Len(processed_split)] = prev_token \o token]
                ELSE Append(processed_split, token))

\* _post_process_candidate(split)
post_process_candidate(split) ==
    IF split = <<>> THEN <<>> ELSE PostProcessLoop(split, 2, <<split[1]>>)

RECURSIVE InsertByCost(_, _)
\* x put into the list sorted by cost, after the entries that cost no more
InsertByCost(sorted, x) ==
    IF sorted = <<>> THEN <<x>>
    ELSE IF LessEq(Head(sorted).cost, x.cost) THEN <<Head(sorted)>> \o InsertByCost(Tail(sorted), x)
    ELSE <<x>> \o sorted

RECURSIVE SortByCost(_, _)
\* sorted(entries, key=lambda x: x[1]): ascending by cost, stable
SortByCost(entries, sorted) ==
    IF entries = <<>> THEN sorted
    ELSE SortByCost(Tail(entries), InsertByCost(sorted, Head(entries)))

\* xs[:n]: a negative n leaves the last -n elements out
Take(xs, n) ==
    IF n >= 0 THEN SubSeq(xs, 1, Min(n, Len(xs)))
    ELSE SubSeq(xs, 1, Max(0, Len(xs) + n))

\* sorted(entries, key=cost)[:beam_width]
Prune(entries, beam_width) == Take(SortByCost(entries, <<>>), beam_width)

\* the candidates that the word s_chunk[j:i] adds at position i
ExtendFrom(model, s_chunk, dp, i, j) ==
    LET word == Slice(s_chunk, j, i)
        word_cost == WordCost(model, word)
    IN  IF Less(word_cost, Infinity)
        THEN [n \in 1..Len(dp[j + 1]) |->
                [split |-> Append(dp[j + 1][n].split, word),
                 cost |-> Plus(dp[j + 1][n].cost, word_cost)]]
        ELSE <<>>

RECURSIVE CandidatesForI(_, _, _, _, _)
\* candidates_for_i: for j in range(max(0, i - maxword), i), from j on
CandidatesForI(model, s_chunk, dp, i, j) ==
    IF j >= i THEN <<>>
    ELSE ExtendFrom(model, s_chunk, dp, i, j) \o CandidatesForI(model, s_chunk, dp, i, j + 1)

RECURSIVE BeamLoop(_, _, _, _)
\* the loop over i of _beam_search_on_chunk; dp[i + 1] is dp[i] of the code
BeamLoop(model, s_chunk, beam_width, dp) ==
    IF Len(dp) > Len(s_chunk) THEN dp
    ELSE
        LET i == Len(dp)
            candidates_for_i ==
                CandidatesForI(model, s_chunk, dp, i, Max(0, i - model.maxword))
        IN  BeamLoop(model, s_chunk, beam_width,
                     Append(dp, Prune(candidates_for_i, beam_width)))

\* _beam_search_on_chunk(s_chunk, beam_width) = dp[len(s_chunk)]
beam_search_on_chunk(model, s_chunk, beam_width) ==
    LET dp == BeamLoop(model, s_chunk, beam_width, <<<<[split |-> <<>>, cost |-> Zero]>>>>)
    IN  dp[Len(s_chunk) + 1]

RECURSIVE CrossProduct(_, _)
\* for prev in beam: for c in chunk_candidates: (prev + c, costs added)
CrossProduct(beam, chunk_candidates) ==
    IF beam = <<>> THEN <<>>
    ELSE [n \in 1..Len(chunk_candidates) |->
            [split |-> Head(beam).split \o chunk_candidates[n].split,
             cost |-> Plus(Head(beam).cost, chunk_candidates[n].cost)]]
         \o CrossProduct(Tail(beam), chunk_candidates)

\* new_beam of the loop over the chunks: a whitespace chunk is appended to
\* every entry, any other chunk adds each of its candidates to every entry
new_beam(model, beam, chunk, beam_width) ==
    IF StrIsSpace(chunk)
    THEN [n \in 1..Len(beam) |->
            [split |-> Append(beam[n].split, chunk), cost |-> beam[n].cost]]
    ELSE
        LET found == beam_search_on_chunk(model, chunk, beam_width)
            chunk_candidates ==
                IF found = <<>>
                THEN <<[split |-> <<chunk>>, cost |-> Infinity]>>
                ELSE found
        IN  CrossProduct(beam, chunk_candidates)

\* BeamAfterChunk that cuts new_beam to the beam width before sorting it
BeamAfterChunkCutFirst(model, beam, chunk, beam_width) ==
    SortByCost(Take(new_beam(model, beam, chunk, beam_width), beam_width), <<>>)

\* the body of the loop over the chunks: the beam after the chunk
BeamAfterChunk(model, beam, chunk, beam_width) ==
    Prune(new_beam(model, beam, chunk, beam_width), beam_width)

RECURSIVE ChunkLoop(_, _, _, _)
ChunkLoop(model, beam, chunks, beam_width) ==
    IF chunks = <<>> THEN beam
    ELSE ChunkLoop(model, BeamAfterChunk(model, beam, Head(chunks), beam_width),
                   Tail(chunks), beam_width)

\* candidates(s, top_n): result is what it returns, beam the final beam
Candidates(model, s0, n) ==
    LET s == Lower(s0)
        beam_width == Max(n, MinBeamWidth)
        beam == ChunkLoop(model, <<[split |-> <<>>, cost |-> Zero]>>,
                          CandidateChunks(s), beam_width)
        processed_candidates ==
            [m \in 1..Len(beam) |-> post_process_candidate(beam[m].split)]
    IN  [result |-> Take(processed_candidates, n), beam |-> beam]

----------------------------------------------------------------------------
(* LanguageModel.rejoin *)

DoubleQuote == <<"\"">>

\* token in a rule set: the sets hold one-character strings
InRuleSet(token, rules) == Len(token) = 1 /\ token[1] \in rules

\* AddSpace without the rule for whitespace tokens
AddSpaceNoWhitespaceRule(model, token, next_token, is_opening_quote, in_quotes) ==
    IF is_opening_quote THEN FALSE
    ELSE IF next_token = DoubleQuote /\ in_quotes THEN FALSE
    ELSE IF \/ InRuleSet(token, model.no_space_after)
            \/ InRuleSet(next_token, model.no_space_before) THEN FALSE
    ELSE TRUE

\* add_space for the token and the one after it; in_quotes is the flag after
\* the token was emitted
AddSpace(model, token, next_token, is_opening_quote, in_quotes) ==
    IF is_opening_quote THEN FALSE
    ELSE IF next_token = DoubleQuote /\ in_quotes THEN FALSE
    ELSE IF \/ InRuleSet(token, model.no_space_after)
            \/ InRuleSet(next_token, model.no_space_before) THEN FALSE
    ELSE IF StrIsSpace(token) \/ StrIsSpace(next_token) THEN FALSE
    ELSE TRUE

RECURSIVE RejoinLoop(_, _, _, _)
\* the loop over the tokens from index i (1-based) on.  st.result_parts is
\* result_parts, st.in_quotes the flag; st.flags[i] is the flag after token i
\* and st.spaces[i] whether a space was put after token i
RejoinLoop(model, tokens, i, st) ==
    IF i > Len(tokens) THEN st
    ELSE
        LET token == tokens[i]
            is_opening_quote == token = DoubleQuote /\ ~st.in_quotes
            in_quotes == IF token = DoubleQuote THEN ~st.in_quotes ELSE st.in_quotes
            add_space == /\ i < Len(tokens)
                         /\ AddSpace(model, token, tokens[i + 1], is_opening_quote, in_quotes)
        IN  RejoinLoop(model, tokens, i + 1,
                [result_parts |-> st.result_parts \o <<token>>
                                  \o (IF add_space THEN <<<<" ">>>> ELSE <<>>),
                 in_quotes |-> in_quotes,
                 flags |-> Append(st.flags, in_quotes),
                 spaces |-> Append(st.spaces, add_space)])

\* rejoin(text_string): result is what it returns; stuck when its call of
\* split does not return
Rejoin(model, text_string) ==
    LET split == Split(model, text_string)
        tokens == split.tokens
        st == RejoinLoop(model, tokens, 1,
                         [result_parts |-> <<>>, in_quotes |-> FALSE,
                          flags |-> <<>>, spaces |-> <<>>])
    IN  [result |-> IF tokens = <<>> THEN <<>> ELSE Flatten(st.result_parts),
         tokens |-> tokens,
         flags |-> st.flags,
         spaces |-> st.spaces,
         stuck |-> split.stuck]

----------------------------------------------------------------------------
(* The state machine: a model is constructed, then split, candidates and   *)
(* rejoin are called on the text.  The model is never changed by a call.   *)

NotConstructed == [status |-> "none"]
NotCalled == [called |-> FALSE]

\* all strings over the characters cs of length at most n
TextsUpTo(cs, n) == UNION {[1..m -> cs] : m \in 0..n}

\* lm = LanguageModel(**args)
Construct ==
    /\ lm = NotConstructed
    /\ lm' = NewLanguageModel(args)
    /\ UNCHANGED <<args, text, top_n, split_out, cand_out, rejoin_out>>

\* split_out = lm.split(text)
CallSplit ==
    /\ lm.status = "ok"
    /\ ~split_out.called
    /\ split_out' = [called |-> TRUE] @@ Split(lm, text)
    /\ UNCHANGED <<args, text, top_n, lm, cand_out, rejoin_out>>

\* cand_out = lm.candidates(text, top_n)
CallCandidates ==
    /\ lm.status = "ok"
    /\ ~cand_out.called
    /\ cand_out' = [called |-> TRUE] @@ Candidates(lm, text, top_n)
    /\ UNCHANGED <<args, text, top_n, lm, split_out, rejoin_out>>

\* rejoin_out = lm.rejoin(text)
CallRejoin ==
    /\ lm.status = "ok"
    /\ ~rejoin_out.called
    /\ rejoin_out' = [called |-> TRUE] @@ Rejoin(lm, text)
    /\ UNCHANGED <<args, text, top_n, lm, split_out, cand_out>>

Next == Construct \/ CallSplit \/ CallCandidates \/ CallRejoin

\* the state before construction, for the given sets of inputs
InitWith(argSet, texts, topNs) ==
    /\ args \in argSet
    /\ text \in texts
    /\ top_n \in topNs
    /\ lm = NotConstructed
    /\ split_out = NotCalled
    /\ cand_out = NotCalled
    /\ rejoin_out = NotCalled

\* keyword arguments left at their defaults
DefaultArgs(language, word_file, file_words) ==
    [language |-> language, word_file |-> word_file, file_words |-> file_words,
     add_words |-> <<>>, blacklist |-> <<>>, add_to_top |-> FALSE, overwrite |-> FALSE]

----------------------------------------------------------------------------
(* Inputs *)

MaxLen == 4

\* a small word file in rank order: a, 's, as, s, aa, a1
SmallWords ==
    << <<"a">>, <<"'", "s">>, <<"a", "s">>, <<"s">>, <<"a", "a">>, <<"a", "1">> >>

MainChars == {"a", "s", "A", "'", "1", " "}

Init ==
    InitWith({DefaultArgs("en", "", SmallWords)}, TextsUpTo(MainChars, MaxLen), {1})

Spec == Init /\ [][Next]_vars

MaxBeamLen == 6

\* a word file under which a text has many segmentations, some of equal
\* cost: aa, a, b, ab, aaa, ba
BeamWords ==
    << <<"a", "a">>, <<"a">>, <<"b">>, <<"a", "b">>, <<"a", "a", "a">>, <<"b", "a">> >>

BeamChars == {"a", "b", " "}

\* top_n below, and above, the least beam width
BeamTopNs == {1, 3, MinBeamWidth + 1}

\* top_n is taken as given: 0 and a negative top_n too
AnyTopNs == {-1, 0} \cup BeamTopNs

InitBeam ==
    InitWith({DefaultArgs("custom", "words.gz", BeamWords)},
             TextsUpTo(BeamChars, MaxBeamLen), AnyTopNs)

SpecBeam == InitBeam /\ [][Next]_vars

MaxRunLen == 6
MaxChunkLen == 4

\* one run of letters: a long one has more segmentations than the beam is
\* wide
RunChars == {"a", "b"}

\* "x" is in no word of the file
ChunkChars == {"a", "x"}

\* two runs of letters with a space between them, the first with letters
\* that are in no word: the two together have more segmentations than the
\* beam is wide
TwoChunkTexts ==
    {c1 \o <<" ">> \o c2 : c1 \in TextsUpTo(ChunkChars, MaxChunkLen),
                            c2 \in TextsUpTo({"a"}, MaxChunkLen)}

\* single runs, short texts with whitespace anywhere, and two runs
ChunkTexts ==
    TextsUpTo(RunChars, MaxRunLen) \cup TextsUpTo(BeamChars, MaxChunkLen)
        \cup TwoChunkTexts

InitChunks ==
    InitWith({DefaultArgs("custom", "words.gz", BeamWords)}, ChunkTexts, BeamTopNs)

SpecChunks == InitChunks /\ [][Next]_vars

MaxPunctLen == 5

PunctChars == {"a", "s", "'", "\"", " "}

InitPunct ==
    InitWith({DefaultArgs("en", "", SmallWords)}, TextsUpTo(PunctChars, MaxPunctLen), {1})

SpecPunct == InitPunct /\ [][Next]_vars

MaxFileWords == 3
MaxAddWords == 2

\* the words a word file is made of here, and the words added to it
CtorPool == { <<"a">>, <<"s">>, <<"a", "s">> }
CtorAddPool == { <<"a", "s">>, <<"A", "S">> }

\* every list of at most n members of a set
ListsUpTo(S, n) == UNION {[1..m -> S] : m \in 0..n}

\* constructor calls that read a word file, and three that fail before
\* reading one
CtorArgs ==
    {[language |-> "en", word_file |-> "", file_words |-> f, add_words |-> a,
      blacklist |-> b, add_to_top |-> top, overwrite |-> ow] :
        f \in ListsUpTo(CtorPool, MaxFileWords),
        a \in ListsUpTo(CtorAddPool, MaxAddWords),
        b \in {<<>>, << <<"a">> >>},
        top \in BOOLEAN, ow \in BOOLEAN}
    \cup {DefaultArgs("custom", "", <<>>),
          DefaultArgs("custom", "missing", <<>>),
          DefaultArgs("xx", "", <<>>)}

InitCtor == InitWith(CtorArgs, {<<"a", "s">>}, {1})

SpecCtor == InitCtor /\ [][Next]_vars

MaxRejoinLen == 4

RejoinChars == {"a", "'", "\"", " ", "-"}

\* English and German differ on the hyphen in the spacing rule sets
InitRejoin ==
    InitWith({DefaultArgs("en", "", SmallWords), DefaultArgs("de", "", SmallWords)},
             TextsUpTo(RejoinChars, MaxRejoinLen), {1})

SpecRejoin == InitRejoin /\ [][Next]_vars

MaxLoopLen == 3

LoopChars == {"a", "1", " "}

\* added words, the empty word among them
LoopAddPool == { <<>>, <<"a">> }

\* a word file that is empty or holds one word, and words added to it
LoopArgs ==
    {[DefaultArgs("custom", "words.gz", f) EXCEPT !.add_words = a] :
        f \in {<<>>, << <<"a">> >>},
        a \in ListsUpTo(LoopAddPool, MaxAddWords)}

InitLoop == InitWith(LoopArgs, TextsUpTo(LoopChars, MaxLoopLen), {1})

SpecLoop == InitLoop /\ [][Next]_vars

----------------------------------------------------------------------------
(* Notions the properties are stated with *)

NoWhitespace(s) == \A n \in 1..Len(s) : ~IsSpace(s[n])
IsLowerCase(s) == \A n \in 1..Len(s) : s[n] \notin UpperCase

RECURSIVE Offsets(_, _)
\* the offsets in the text at which the tokens of a token list end, the
\* first token starting at offset a
Offsets(tokens, a) ==
    IF tokens = <<>> THEN {}
    ELSE {a + Len(Head(tokens))} \cup Offsets(Tail(tokens), a + Len(Head(tokens)))

\* the offsets at which a token list cuts the text, its two ends included
Cuts(tokens) == {0} \cup Offsets(tokens, 0)

\* the offset at which token j of a token list starts
StartOf(tokens, j) == Len(Flatten(SubSeq(tokens, 1, j - 1)))

----------------------------------------------------------------------------
(* Properties of split *)

\* C1: the tokens split returns, concatenated in order, are the text itself,
\* case and whitespace included.
C1_SplitIsLossless ==
    split_out.called => Flatten(split_out.tokens) = text

\* C1 witness: split was called on a text with a capital and a whitespace
\* run, and its backtracking merged two pieces into one token.
C1_Witness ==
    /\ split_out.called
    /\ ~NoWhitespace(text)
    /\ ~IsLowerCase(text)
    /\ \E n \in 1..Len(split_out.pieces) :
          \E t \in Range(split_out.tokens) :
              /\ Len(split_out.pieces[n]) >= 2
              /\ t = Flatten(split_out.pieces[n])

\* C4: on a text without whitespace, no two adjacent tokens of split have a
\* digit on both sides of their boundary.
C4_DigitRunsUndivided ==
    (split_out.called /\ NoWhitespace(text)) =>
        \A j \in 1..(Len(split_out.tokens) - 1) :
            ~(/\ IsDigit(split_out.tokens[j][Len(split_out.tokens[j])])
              /\ IsDigit(split_out.tokens[j + 1][1]))

\* C4 witness: the dynamic programme cut between two digits (one piece ends
\* with a digit and the next begins with one) and split was called.
C4_Witness ==
    /\ split_out.called
    /\ NoWhitespace(text)
    /\ \E j \in 1..(Len(split_out.pieces[1]) - 1) :
          /\ IsDigit(split_out.pieces[1][j][Len(split_out.pieces[1][j])])
          /\ IsDigit(split_out.pieces[1][j + 1][1])
          /\ Len(split_out.pieces[1][j]) >= 2


\* C10 as claimed: on a text without whitespace, a piece of the backtracking
\* that is exactly an apostrophe is never a token of its own in split's
\* output (it is fused into a neighbouring token).
C10_LoneApostropheFused ==
    (split_out.called /\ NoWhitespace(text)) =>
        \A j \in 1..Len(split_out.pieces[1]) :
            split_out.pieces[1][j] = <<"'">> =>
                ~(/\ StartOf(split_out.pieces[1], j) \in Cuts(split_out.tokens)
                  /\ StartOf(split_out.pieces[1], j) + 1 \in Cuts(split_out.tokens))

\* C10 amended: a piece that is exactly an apostrophe is exempt from the
\* merge rules; it is never fused into a neighbouring token and is always
\* emitted as a token of its own.
C10_LoneApostropheKept ==
    (split_out.called /\ NoWhitespace(text)) =>
        \A j \in 1..Len(split_out.pieces[1]) :
            split_out.pieces[1][j] = <<"'">> =>
                /\ StartOf(split_out.pieces[1], j) \in Cuts(split_out.tokens)
                /\ StartOf(split_out.pieces[1], j) + 1 \in Cuts(split_out.tokens)

\* C10 witness: a lone apostrophe piece stands between another piece and the
\* piece 's, and split was called.
C10_Witness ==
    /\ split_out.called
    /\ NoWhitespace(text)
    /\ \E j \in 2..(Len(split_out.pieces[1]) - 1) :
          /\ split_out.pieces[1][j] = <<"'">>
          /\ split_out.pieces[1][j + 1] = <<"'", "s">>

\* C5 as claimed: on a text without whitespace, wherever the backtracking
\* chose the piece 's and the piece to its left is not a lone apostrophe,
\* split emits the two in one token; and a token equal to 's stands only at
\* the start of the text or directly after a lone-apostrophe token.
C5_PossessiveReattached ==
    (split_out.called /\ NoWhitespace(text)) =>
        /\ \A j \in 2..Len(split_out.pieces[1]) :
              (/\ split_out.pieces[1][j] = <<"'", "s">>
               /\ split_out.pieces[1][j - 1] # <<"'">>) =>
                  StartOf(split_out.pieces[1], j) \notin Cuts(split_out.tokens)
        /\ \A m \in 2..Len(split_out.tokens) :
              split_out.tokens[m] = <<"'", "s">> => split_out.tokens[m - 1] = <<"'">>

----------------------------------------------------------------------------
(* Properties of candidates *)

\* C9 as claimed: in every token sequence candidates returns, each maximal
\* whitespace run of the text is a token of its own at its original place.
C9_WhitespaceTokensKept ==
    cand_out.called =>
        \A m \in 1..Len(cand_out.result) :
            \A a \in 0..(Len(text) - 1) :
                (IsSpace(text[a + 1]) /\ (a = 0 \/ ~IsSpace(text[a]))) =>
                    /\ a \in Cuts(cand_out.result[m])
                    /\ RunEnd(text, a, TRUE) \in Cuts(cand_out.result[m])

\* C2 as claimed: on a lowercase text and with top_n >= 1, the first token
\* sequence of candidates is the token sequence of split.
C2_FirstCandidateIsSplit ==
    (split_out.called /\ cand_out.called /\ IsLowerCase(text) /\ top_n >= 1) =>
        /\ Len(cand_out.result) >= 1
        /\ cand_out.result[1] = split_out.tokens


RECURSIVE SegmentationCosts(_, _, _)
\* the total cost of every admissible segmentation of chunk[0:i], one entry
\* for each: the pieces are at most maxword long and are dictionary words or
\* single unknown characters, and their costs are added from left to right
SegmentationCosts(model, chunk, i) ==
    IF i = 0 THEN <<Zero>>
    ELSE
        LET Ending(k) ==
                LET wc == WordCost(model, Slice(chunk, i - k, i))
                    before == SegmentationCosts(model, chunk, i - k)
                IN  IF wc # Infinity
                    THEN [n \in 1..Len(before) |-> Plus(before[n], wc)]
                    ELSE <<>>
            From[k \in 1..(Min(i, model.maxword) + 1)] ==
                IF k > Min(i, model.maxword) THEN <<>>
                ELSE Ending(k) \o From[k + 1]
        IN  From[1]

RECURSIVE AllCostsFrom(_, _, _)
\* the total cost of every admissible segmentation of a text given as its
\* chunks, so_far holding the totals over the chunks before: a whitespace
\* chunk costs nothing and is cut in one way, and the total of a chunk is
\* added to the total of the chunks before it
AllCostsFrom(model, chunks, so_far) ==
    IF chunks = <<>> THEN so_far
    ELSE
        LET here == IF StrIsSpace(Head(chunks)) THEN <<Zero>>
                    ELSE SegmentationCosts(model, Head(chunks), Len(Head(chunks)))
        IN  AllCostsFrom(model, Tail(chunks),
                <<>> \o [n \in 1..(Len(so_far) * Len(here)) |->
                            Plus(so_far[((n - 1) \div Len(here)) + 1],
                                 here[((n - 1) % Len(here)) + 1])])

AllCosts(model, chunks) == AllCostsFrom(model, chunks, <<Zero>>)

RECURSIVE SumOfCostsFrom(_, _, _, _)
\* the cost of a raw candidate: the costs of the tokens of a chunk added from
\* left to right (in_chunk), the total of each chunk added to the total of
\* the chunks before it (so_far)
SumOfCostsFrom(model, split, so_far, in_chunk) ==
    IF split = <<>> THEN Plus(so_far, in_chunk)
    ELSE IF StrIsSpace(Head(split))
    THEN SumOfCostsFrom(model, Tail(split), Plus(so_far, in_chunk), Zero)
    ELSE SumOfCostsFrom(model, Tail(split), so_far,
                        Plus(in_chunk, WordCost(model, Head(split))))

SumOfCosts(model, split) == SumOfCostsFrom(model, split, Zero, Zero)

\* C3: candidates returns min(top_n, number of admissible segmentations)
\* sequences, in non-decreasing order of cost; they are distinct admissible
\* segmentations of the lowercased text, and the m-th of them costs what the
\* m-th cheapest of all admissible segmentations costs.
C3_TopNIsExact ==
    (cand_out.called /\ top_n >= 1) =>
        LET all == AllCosts(lm, CandidateChunks(Lower(text)))
            r == Len(cand_out.result)
            beam == cand_out.beam
        IN  /\ r = Min(top_n, Len(all))
            /\ \A m \in 1..r :
                /\ Flatten(beam[m].split) = Lower(text)
                /\ beam[m].cost = SumOfCosts(lm, beam[m].split)
                /\ Less(beam[m].cost, Infinity)
                /\ cand_out.result[m] = post_process_candidate(beam[m].split)
                /\ m > 1 => LessEq(beam[m - 1].cost, beam[m].cost)
                /\ \A m2 \in 1..r : m2 # m => beam[m2].split # beam[m].split
                /\ Cardinality({n \in 1..Len(all) : Less(all[n], beam[m].cost)}) <= m - 1
                /\ Cardinality({n \in 1..Len(all) : LessEq(all[n], beam[m].cost)}) >= m

\* the number of admissible segmentations of each chunk of a text
SegmentationCounts(model, chunks) ==
    [c \in 1..Len(chunks) |->
        IF StrIsSpace(chunks[c]) THEN 1
        ELSE Len(SegmentationCosts(model, chunks[c], Len(chunks[c])))]

\* C3 witness: candidates was called with top_n > 1 on a text of several
\* chunks, one of them with a character that is in no word; no chunk has more
\* segmentations than the beam is wide, so that nothing is discarded at a
\* position, and two chunks together have more, so that the cut after the
\* second of them discards some.
C3_Witness ==
    /\ cand_out.called
    /\ top_n > 1
    /\ LET chunks == CandidateChunks(Lower(text))
           counts == SegmentationCounts(lm, chunks)
           beam_width == Max(top_n, MinBeamWidth)
       IN  /\ \A c \in 1..Len(chunks) : counts[c] <= beam_width
           /\ \E c1, c2 \in 1..Len(chunks) :
                /\ c1 < c2
                /\ counts[c1] > 1
                /\ counts[c2] > 1
                /\ counts[c1] * counts[c2] > beam_width
           /\ \E c \in 1..Len(chunks) : \E p \in 1..Len(chunks[c]) :
                /\ ~StrIsSpace(chunks[c])
                /\ <<chunks[c][p]>> \notin DOMAIN lm.wordcost
           /\ Len(cand_out.beam) = beam_width


----------------------------------------------------------------------------
(* Properties of rejoin *)

\* the offset in the text at which token i of a token list ends
EndOf(tokens, i) == Len(Flatten(SubSeq(tokens, 1, i)))

\* the offsets in the text at which rejoin put a space
InsertedAt(out) ==
    {EndOf(out.tokens, i) : i \in {n \in 1..Len(out.tokens) : out.spaces[n]}}

\* the positions (1-based) of the double quotes of a text
QuotePositions(s) == {p \in 1..Len(s) : <<s[p]>> = DoubleQuote}

\* C6 as claimed: the flag starts false and flips exactly at the tokens equal
\* to a double quote; no space follows a quote token that opens a span and
\* none precedes a quote token that closes the open span; and in a text whose
\* double quotes are balanced no inserted space stands between a quote and
\* the content it encloses.
C6_QuotesHugContent ==
    rejoin_out.called =>
        LET toks == rejoin_out.tokens
            FlagBefore(i) == IF i = 1 THEN FALSE ELSE rejoin_out.flags[i - 1]
            quotes == QuotePositions(text)
            Opens(p) == Cardinality({q \in quotes : q < p}) % 2 = 0
        IN  /\ \A i \in 1..Len(toks) :
                  rejoin_out.flags[i] =
                      (IF toks[i] = DoubleQuote THEN ~FlagBefore(i) ELSE FlagBefore(i))
            /\ \A i \in 1..(Len(toks) - 1) :
                  /\ (toks[i] = DoubleQuote /\ ~FlagBefore(i)) => ~rejoin_out.spaces[i]
                  /\ (toks[i + 1] = DoubleQuote /\ rejoin_out.flags[i]) => ~rejoin_out.spaces[i]
            /\ Cardinality(quotes) % 2 = 0 =>
                  \A p \in quotes :
                      IF Opens(p) THEN p \notin InsertedAt(rejoin_out)
                      ELSE (p - 1) \notin InsertedAt(rejoin_out)


----------------------------------------------------------------------------
(* Properties of the constructor *)

\* the word list the constructor ends with, whatever it then does with it
FinalWords(a) ==
    AddWords(RemoveBlacklisted(a.file_words, a.blacklist),
             a.add_words, a.add_to_top, a.overwrite)

\* C7: with an add list, add_to_top and overwrite, the add-list words
\* (lowercased) fill the first len(add_words) ranks, none of them is left at a
\* later rank, the words after them are the base words that remain, in their
\* order, and every add-list word costs strictly less than each of those.
C7_AddedWordsOutrankBase ==
    (/\ lm.status = "ok"
     /\ args.add_words # <<>>
     /\ args.add_to_top
     /\ args.overwrite) =>
        LET n == Len(args.add_words)
            lowered == [m \in 1..n |-> Lower(args.add_words[m])]
            base == RemoveBlacklisted(args.file_words, args.blacklist)
            N == Len(lm.words)
        IN  /\ SubSeq(lm.words, 1, n) = lowered
            /\ \A m \in (n + 1)..N : lm.words[m] \notin Range(lowered)
            /\ SubSeq(lm.words, n + 1, N)
                   = SelectSeq(base, LAMBDA w : w \notin Range(lowered))
            /\ \A w \in Range(lowered) :
                   \A m \in (n + 1)..N : Less(lm.wordcost[w], lm.wordcost[lm.words[m]])

\* C7 witness: a model built with a capitalised add word that the word file
\* already holds, add_to_top and overwrite, splits the text otherwise than
\* the model built from the same file without the add list.
C7_Witness ==
    /\ lm.status = "ok"
    /\ args.add_words = << <<"A", "S">> >>
    /\ args.add_to_top
    /\ args.overwrite
    /\ <<"a", "s">> \in Range(args.file_words)
    /\ split_out.called
    /\ LET plain == NewLanguageModel([args EXCEPT !.add_words = <<>>])
       IN  /\ plain.status = "ok"
           /\ Split(plain, text).tokens = << <<"a">>, <<"s">> >>
           /\ split_out.tokens = << <<"a", "s">> >>

\* C8: a constructor call whose final word list has no word or one word
\* raises an error; every model the constructor returns has at least two
\* words in its list and a finite cost for each word of its table.
C8_DegenerateListRejected ==
    lm.status # "none" =>
        /\ Len(FinalWords(args)) <= 1 => lm.status = "error"
        /\ lm.status = "ok" =>
              /\ Len(lm.words) >= 2
              /\ DOMAIN lm.wordcost = Range(lm.words)
              /\ \A w \in DOMAIN lm.wordcost :
                    /\ Less(NegInfinity, lm.wordcost[w])
                    /\ Less(lm.wordcost[w], Infinity)

\* C8 witness: the constructor was called on a word file of two words or
\* more that the blacklist and the add list cut down to one word, and raised
\* the logarithm's error.
C8_Witness ==
    /\ lm.status = "error"
    /\ lm.error = "ValueError: math domain error"
    /\ Len(args.file_words) >= 2
    /\ Len(FinalWords(args)) = 1


----------------------------------------------------------------------------
(* Properties of the dynamic programme of split *)

RECURSIVE PiecesCostFrom(_, _, _)
\* the total cost of a sequence of pieces, each costed by its lowercase
\* form, added from left to right to the total so far
PiecesCostFrom(model, ps, so_far) ==
    IF ps = <<>> THEN so_far
    ELSE PiecesCostFrom(model, Tail(ps),
                        Plus(so_far, WordCost(model, Lower(Head(ps)))))

PiecesCost(model, ps) == PiecesCostFrom(model, ps, Zero)

\* C11: on a text without whitespace, the pieces the backtracking chose are a
\* segmentation of the text into pieces no longer than maxword, each a
\* dictionary word (by its lowercase form) or a single character, and no
\* admissible segmentation of the text costs less than they do.
C11_PiecesAreMinimumCost ==
    (split_out.called /\ NoWhitespace(text)) =>
        LET ps == split_out.pieces[1]
            all == SegmentationCosts(lm, Lower(text), Len(text))
        IN  /\ Flatten(ps) = text
            /\ \A j \in 1..Len(ps) :
                  /\ Len(ps[j]) >= 1
                  /\ Len(ps[j]) <= lm.maxword
                  /\ Lower(ps[j]) \in DOMAIN lm.wordcost \/ Len(ps[j]) = 1
            /\ Less(PiecesCost(lm, ps), Infinity)
            /\ \E n \in 1..Len(all) : all[n] = PiecesCost(lm, ps)
            /\ \A n \in 1..Len(all) : LessEq(PiecesCost(lm, ps), all[n])

\* C11 witness: split was called on a text with a capital, the pieces chosen
\* hold a dictionary word of two characters and an unknown character, and
\* some other segmentation of the text costs more.
C11_Witness ==
    /\ split_out.called
    /\ NoWhitespace(text)
    /\ ~IsLowerCase(text)
    /\ \E j \in 1..Len(split_out.pieces[1]) : Len(split_out.pieces[1][j]) = 2
    /\ \E j \in 1..Len(split_out.pieces[1]) :
          Lower(split_out.pieces[1][j]) \notin DOMAIN lm.wordcost
    /\ LET all == SegmentationCosts(lm, Lower(text), Len(text))
       IN  \E n \in 1..Len(all) : Less(PiecesCost(lm, split_out.pieces[1]), all[n])


----------------------------------------------------------------------------
(* Properties of rejoin's output *)

RECURSIVE WithSpaces(_, _)
\* the tokens in order, one space after each token whose mark is TRUE
WithSpaces(tokens, marks) ==
    IF tokens = <<>> THEN <<>>
    ELSE Head(tokens) \o (IF Head(marks) THEN <<" ">> ELSE <<>>)
         \o WithSpaces(Tail(tokens), Tail(marks))

\* C12: rejoin works on the tokens of split; its result is those tokens in
\* order with nothing or exactly one space between neighbours, nothing after
\* the last token, and nothing next to a whitespace token; without the
\* inserted spaces the result is the text; rejoin of the empty text is empty.
C12_RejoinOnlyInsertsSpaces ==
    rejoin_out.called =>
        LET toks == rejoin_out.tokens
            sp == rejoin_out.spaces
        IN  /\ split_out.called => toks = split_out.tokens
            /\ Flatten(toks) = text
            /\ Len(sp) = Len(toks)
            /\ rejoin_out.result = WithSpaces(toks, sp)
            /\ Len(rejoin_out.result)
                   = Len(text) + Cardinality({i \in 1..Len(sp) : sp[i]})
            /\ toks # <<>> => ~sp[Len(toks)]
            /\ \A i \in 1..(Len(toks) - 1) :
                  (StrIsSpace(toks[i]) \/ StrIsSpace(toks[i + 1])) => ~sp[i]
            /\ text = <<>> => rejoin_out.result = <<>>

\* C12 witness: rejoin was called on a text with a whitespace run and a
\* double quote, and put a space between two of its tokens.
C12_Witness ==
    /\ rejoin_out.called
    /\ ~NoWhitespace(text)
    /\ QuotePositions(text) # {}
    /\ \E i \in 1..Len(rejoin_out.spaces) : rejoin_out.spaces[i]


----------------------------------------------------------------------------
(* Termination of the backtracking loop of _split *)

\* the position i of the backtracking loop when it recovers piece j of ps
PositionOf(ps, j) == Len(Flatten(SubSeq(ps, 1, j)))

\* C13: for every text and every constructed model the backtracking loop of
\* split comes to an end: each piece it recovers at a position i > 0 has a
\* length k with 1 <= k <= min(i, maxword), and the pieces of a chunk add up
\* to the chunk, so the position reaches exactly 0.
C13_BacktrackingTerminates ==
    split_out.called =>
        LET texts == SplitRE_split(text)
        IN  /\ ~split_out.stuck
            /\ \A n \in 1..Len(texts) :
                  LET ps == split_out.pieces[n]
                  IN  /\ Flatten(ps) = texts[n]
                      /\ \A j \in 1..Len(ps) :
                            /\ 1 <= Len(ps[j])
                            /\ Len(ps[j]) <= Min(PositionOf(ps, j), lm.maxword)

====
